---- MODULE Spec2Model ----
(***************************************************************************)
(* The p2 replication-controller core, as driven by p2-mini-orchestrator.  *)
(*                                                                         *)
(* Modelled from the sources:                                              *)
(*   src/unnamed/part_001  the mini-orchestrator driver (makeRcFields,     *)
(*                         checkFieldsSame, scheduler, main)               *)
(*   src/unnamed/part_000  the preparer's main, watchForErrors,            *)
(*                         statusHandler and waitForTermination            *)
(*   src/pkg/kp/constants.go  the path scheme (nodePath, podPath,          *)
(*                         PodLockPath)                                    *)
(* Modelled from the specification (the packages rcstore, rc and labels    *)
(* are called by the driver but their code is not among the sources):      *)
(*   the RC Store operations, the label applicator, the scheduler and the  *)
(*   replication controller's watch loop.                                  *)
(***************************************************************************)
EXTENDS Integers, Sequences, FiniteSets, TLC

\* ------------------------------------------------------------------ bounds

\* Number of nodes in the pool the scheduler can choose from.
NumNodes == 2

\* Number of store calls the second process (an operator's CLI) may issue.
MaxOperatorOps == 1

\* Number of transient scheduler / intent-write failures that may happen.
MaxFailures == 1

\* Number of success/error events each preparer watch loop may report.
MaxEvents == 2

\* Number of /_status requests that may be served.
MaxRequests == 1

\* Longest node name and pod id handed to the path functions, in segments.
MaxSegments == 2

\* Lines of the driver's log of watcher errors (line 246) that are kept.
MaxLogged == 2

\* ------------------------------------------------------- program constants

\* fields.ID("BOGUSBOGUS"): an id no Create ever allocates.
BOGUSBOGUS == 0

\* The zero value of fields.ID (the ID of an RC value never assigned).
ZeroID == -1

\* Length of the hex digest returned by manifest.SHA().
ShaLen == 64

\* sha[:63], the truncation applied to the digest for the pod label.
ShaTruncated == 63

\* stores ...rcstore.Store as passed by main: (fakeStore, consulStore).
Stores == <<"fake", "consul">>

NodePool == 1..NumNodes

\* ---------------------------------------------------------------- inputs
\* Manifests are "web" and "db"; selectors are single key=value requirements,
\* <<key, value>>, as labels.Parse yields them.

\* Manifest.ID(): the pod id of a manifest.
ManifestID(m) == IF m = "web" THEN "web-pod" ELSE "db-pod"

\* manifest.SHA(): a digest of ShaLen hex digits, different per manifest.
ManifestSHA(m) == [k \in 1..ShaLen |-> IF m = "web" THEN k % 16 ELSE (k + 1) % 16]

\* Selector.String(): key=value.
SelectorString(sel) == <<sel[1], "=", sel[2]>>

\* The (manifest, selector) pairs callers hand to Create: the web pod goes to
\* the nodes serving app=web, the db pod to the nodes of zone a.
Workloads == {<<"web", <<"app", "web">>>>, <<"db", <<"zone", "a">>>>}

\* The labels on the nodes of the pool: every node serves app=web, node 1 is
\* the only one in zone a.
NodeLabels(n) == IF n = 1 THEN {<<"app", "web">>, <<"zone", "a">>}
                          ELSE {<<"app", "web">>}

\* The pod labels the driver computes from a manifest (part_001 lines 83-91).
LabelKeys == <<"mini-orchestrator", "sha-truncated">>

podLabelsOf(m) ==
    [k \in {"mini-orchestrator", "sha-truncated"} |->
        IF k = "sha-truncated" THEN SubSeq(ManifestSHA(m), 1, ShaTruncated)
                               ELSE <<"true">>]

\* labels.Set.String(): the key=value pairs in key order.
LabelsString(l) == [j \in 1..Len(LabelKeys) |-> <<LabelKeys[j], "=", l[LabelKeys[j]]>>]

\* --------------------------------------------------------------- RC records

\* fields.RC
RC(id, m, sel, lab, dis, rep) ==
    [ID |-> id, Manifest |-> m, NodeSelector |-> sel, PodLabels |-> lab,
     Disabled |-> dis, ReplicasDesired |-> rep]

\* The zero value of fields.RC, what a failed call returns beside its error.
ZeroRC == RC(ZeroID, "", <<>>, <<>>, FALSE, 0)

\* ------------------------------------------------------------------ state

VARIABLES
    args,          \* the command line: [nodes, manifest, selector, endpoint]
    pc,            \* the driver's position (the line of its next call)
    fatalLine,     \* the line of the log.Fatalf that ended the driver, or 0
    i,             \* makeRcFields: index into Stores of the store being exercised
    fields,        \* makeRcFields: the RC returned by the last Create
    check,         \* makeRcFields: the RC returned by Get
    rcsOut,        \* makeRcFields: the RCs collected so far (rcs[0..i-1])
    err,           \* the error of the driver's last store call
    dsnap,         \* the driver's read of a record, between read and conditional write
    currentNodes,  \* main: the result of the last CurrentNodes() poll
    draining,      \* main: the goroutine receiving from the error channel runs
    watcherErr,    \* main: the error that goroutine has received and not yet printed, or NoError
    logged,        \* main: the kinds of the errors that goroutine printed (line 246), first MaxLogged
    rcs,           \* the two stores: store name -> (id -> [rc, ver])
    nextId,        \* next fresh id
    rcLabels,      \* label applicator, RC entities: set of <<id, key>>
    intent,        \* intent tree: node -> manifest of the pod scheduled there, or "none"
    podLabels,     \* label applicator, pod entities: node -> [owner, labels]
    wpc,           \* the watch loop: "off", "watching", "sending", "acking" or "returned"
    pendingErrs,   \* errors the watch loop still has to send on its error channel
    failsLeft,     \* transient failures that may still happen
    opsLeft,       \* calls the operator may still issue
    ocall,         \* the operator's call in flight (between read and conditional write)
    osnap,         \* the operator's read of a record
    last,          \* the operator's last completed call and its result
    created,       \* history: the RCs returned by Create, in call order, as [store, rc]
    deleted,       \* history: the ids whose Delete succeeded
    ppc,           \* preparer: position of waitForTermination / main
    loopPc,        \* preparer: watch loop -> "running", "acking", "returned"
    eventsLeft,    \* preparer: watch loop -> events it may still report
    wfePc,         \* preparer: watch loop -> position of its watchForErrors task
    consecutive,   \* statusHandler: watch loop -> *consecutive
    lastError,     \* statusHandler: watch loop -> *lastError
    hpc,           \* the handler returned by statusHandler: the reads it has still to make
    response,      \* the handler's StatusResponse, as far as it is built
    requestsLeft,  \* /_status requests that may still arrive
    acked,         \* history: the watch loops whose acknowledgement was received
    sinceSuccess,  \* history: watch loop -> errors received since its last success
    lastRecv,      \* history: watch loop -> the error received last
    pathArgs,      \* kp: the arguments of a call of PodLockPath, [podPrefix, nodeName, podId]
    pathOut        \* kp: what the call returned, [path, err], or NoPath before it

vars == <<args, pc, fatalLine, i, fields, check, rcsOut, err, dsnap, currentNodes,
          draining, watcherErr, logged, rcs, nextId, rcLabels, intent, podLabels, wpc, pendingErrs,
          failsLeft, opsLeft, ocall, osnap, last, created, deleted,
          ppc, loopPc, eventsLeft, wfePc, consecutive, lastError, hpc,
          response, requestsLeft, acked, sinceSuccess, lastRecv,
          pathArgs, pathOut>>

driverVars == <<pc, fatalLine, i, fields, check, rcsOut, err, dsnap, currentNodes, draining, watcherErr, logged>>
storeVars == <<rcs, nextId, rcLabels, created, deleted>>
placeVars == <<intent, podLabels>>
loopVars == <<wpc, pendingErrs, failsLeft>>
operatorVars == <<opsLeft, ocall, osnap, last>>
preparerVars == <<ppc, loopPc, eventsLeft, wfePc, consecutive, lastError, hpc,
                  response, requestsLeft, acked, sinceSuccess, lastRecv>>

\* The state of the programs other than the mini-orchestrator and its operator.
pathVars == <<pathArgs, pathOut>>

elsewhere == <<preparerVars, pathVars>>

\* --------------------------------------------------------------- RC Store
\* A store maps the ids of its persisted records to [rc, ver]; ver is the
\* record's modify index, the handle of the store's conditional write.

Present(S, id) == id \in DOMAIN S

\* Create: persists a record with ReplicasDesired = 0 and Disabled = FALSE
\* under the fresh id.
StoreCreate(S, id, m, sel, lab) ==
    [j \in DOMAIN S \cup {id} |->
        IF j = id THEN [rc |-> RC(id, m, sel, lab, FALSE, 0), ver |-> 0] ELSE S[j]]

\* Get: the record, or not-found.
StoreGet(S, id) ==
    IF Present(S, id) THEN [err |-> "nil", rc |-> S[id].rc]
                      ELSE [err |-> "notfound", rc |-> ZeroRC]

\* List: every persisted record.
StoreList(S) == {S[id].rc : id \in DOMAIN S}

\* Delete: not-found, conflict when replicas are still desired, else removed.
StoreDelete(S, id) ==
    IF ~Present(S, id) THEN [err |-> "notfound", store |-> S]
    ELSE IF S[id].rc.ReplicasDesired > 0 THEN [err |-> "conflict", store |-> S]
    ELSE [err |-> "nil", store |-> [j \in DOMAIN S \ {id} |-> S[j]]]

\* The read half of a read-modify-write (SetDesiredReplicas, Disable).
StoreRead(S, id) ==
    IF Present(S, id) THEN [err |-> "nil", rc |-> S[id].rc, ver |-> S[id].ver]
                      ELSE [err |-> "notfound", rc |-> ZeroRC, ver |-> 0]

\* SetDesiredReplicasRead without the validation of the count.
SetDesiredReplicasRead_Unvalidated(S, id, n) == StoreRead(S, id)

\* SetDesiredReplicas, first half: a negative count is rejected before the
\* store is touched; then the record is read.
SetDesiredReplicasRead(S, id, n) ==
    IF n < 0 THEN [err |-> "validation", rc |-> ZeroRC, ver |-> 0]
             ELSE StoreRead(S, id)

\* StoreCAS that writes without comparing the modify index.
StoreCAS_Unconditional(S, id, ver, rc) ==
    IF Present(S, id)
    THEN [ok |-> TRUE, store |-> [S EXCEPT ![id] = [rc |-> rc, ver |-> S[id].ver + 1]]]
    ELSE [ok |-> FALSE, store |-> S]

\* The store's conditional write: succeeds only if the record still has the
\* modify index that was read.
StoreCAS(S, id, ver, rc) ==
    IF Present(S, id) /\ S[id].ver = ver
    THEN [ok |-> TRUE, store |-> [S EXCEPT ![id] = [rc |-> rc, ver |-> ver + 1]]]
    ELSE [ok |-> FALSE, store |-> S]

\* SetDesiredReplicas, second half: write the record read with the new count.
SetDesiredReplicasWrite(S, id, snap, n) ==
    StoreCAS(S, id, snap.ver, [snap.rc EXCEPT !.ReplicasDesired = n])

\* DisableWrite that flips Disabled instead of setting it.
DisableWrite_Toggle(S, id, snap) ==
    StoreCAS(S, id, snap.ver, [snap.rc EXCEPT !.Disabled = ~snap.rc.Disabled])

\* Disable, second half: write the record read with Disabled set.
DisableWrite(S, id, snap) ==
    StoreCAS(S, id, snap.ver, [snap.rc EXCEPT !.Disabled = TRUE])

NoSnap == [err |-> "none", rc |-> ZeroRC, ver |-> 0]

\* Every order in which List may return the records of S (order is not
\* guaranteed): the sequences naming each persisted record once.
StoreListOrders(S) ==
    {[k \in DOMAIN q |-> S[q[k]].rc] :
        q \in {f \in [1..Cardinality(DOMAIN S) -> DOMAIN S] :
                  \A a, b \in DOMAIN f : a # b => f[a] # f[b]}}

\* Deleting an RC removes the labels attached under the entities it touched:
\* those of the RC entity itself ...
RCLabelsAfterDelete(L, id) == {e \in L : e[1] # id}

NoPodLabels == [owner |-> ZeroID, labels |-> <<>>]

\* ... and those of the pods it labelled as its own.
PodLabelsAfterDelete(P, id) ==
    [n \in DOMAIN P |-> IF P[n].owner = id THEN NoPodLabels ELSE P[n]]

\* GetLabels(labels.RC, id): the labels of an RC entity; empty when none.
GetRCLabels(L, id) == {e[2] : e \in {x \in L : x[1] = id}}

\* ---------------------------------------------------------------- scheduler

\* The nodes whose labels match the selector, in ascending (stable) order.
RECURSIVE Ascending(_)
Ascending(N) ==
    IF N = {} THEN <<>>
    ELSE LET m == CHOOSE x \in N : \A y \in N : x <= y
         IN  <<m>> \o Ascending(N \ {m})

Eligible(sel) == Ascending({n \in NodePool : sel \in NodeLabels(n)})

\* target-nodes: the first ReplicasDesired eligible nodes.
TargetNodes(rc) ==
    LET e == Eligible(rc.NodeSelector)
    IN  {e[k] : k \in 1..(IF rc.ReplicasDesired < Len(e) THEN rc.ReplicasDesired ELSE Len(e))}

\* current-nodes: the nodes with an intent entry owned by the RC.
CurrentNodeSet(I, P, id) == {n \in NodePool : I[n] # "none" /\ P[n].owner = id}

\* CurrentNodes(): the same, as an ordered sequence.
CurrentNodes(I, P, id) == Ascending(CurrentNodeSet(I, P, id))

\* ------------------------------------------------------------------ driver
\* src/unnamed/part_001.  pc names the line of the driver's next store call.

\* tryMatch(a, b, desc)
tryMatch(a, b) == IF a = b THEN 0 ELSE 1

\* checkFieldsSame with line 177 comparing the pod labels to the node selector.
checkFieldsSame_Crossed(a, b) ==
      tryMatch(a.ID, b.ID)
    + tryMatch(ManifestID(a.Manifest), ManifestID(b.Manifest))
    + tryMatch(SelectorString(a.NodeSelector), SelectorString(b.NodeSelector))
    + tryMatch(LabelsString(a.PodLabels), SelectorString(b.NodeSelector))
    + (IF a.Disabled # b.Disabled THEN 1 ELSE 0)
    + (IF a.ReplicasDesired # b.ReplicasDesired THEN 1 ELSE 0)

\* checkFieldsSame(a, b): the number of fields in which a and b differ.
checkFieldsSame(a, b) ==
      tryMatch(a.ID, b.ID)
    + tryMatch(ManifestID(a.Manifest), ManifestID(b.Manifest))
    + tryMatch(SelectorString(a.NodeSelector), SelectorString(b.NodeSelector))
    + tryMatch(LabelsString(a.PodLabels), LabelsString(b.PodLabels))
    + (IF a.Disabled # b.Disabled THEN 1 ELSE 0)
    + (IF a.ReplicasDesired # b.ReplicasDesired THEN 1 ELSE 0)

\* The error of a call that could not reach the coordination store.
StoreError == "store error"

\* The values of --node-endpoint: one that names a node inventory, one that
\* url.Parse rejects, and one that labels.NewHttpApplicator refuses.
GoodEndpoint == "https://example.com/api/nodes/select"
Unparsable == "%zz"
Refused == "refused"
Endpoints == {GoodEndpoint, Unparsable, Refused}

\* log.Fatalf at the given line: the process exits.
Fatalf(line) == pc' = "fatal" /\ fatalLine' = line

\* The driver process is running (it has neither returned nor exited).
Running == pc \notin {"fatal", "exit"}

store == Stores[i]

\* consulFields := fields[1]
consulFields == rcsOut[2]

\* What a driver step that only calls a store leaves alone.
notDriverStore == <<args, wpc, pendingErrs, failsLeft, opsLeft, ocall, osnap, last, elsewhere>>

\* A call that may find the coordination store unreachable: the in-memory
\* store of rcstore.NewFake is always there.
MayBeUnreachable(st) == st = "consul"

\* The effect of Delete(id) on store st: the record is removed, and with it
\* (in the coordination store) the labels attached for it.
DeleteEffect(st, id) ==
    LET r == StoreDelete(rcs[st], id)
    IN  /\ rcs' = [rcs EXCEPT ![st] = r.store]
        /\ deleted' = IF r.err = "nil" THEN deleted \cup {id} ELSE deleted
        /\ IF st = "consul" /\ r.err = "nil"
           THEN /\ rcLabels' = RCLabelsAfterDelete(rcLabels, id)
                /\ podLabels' = PodLabelsAfterDelete(podLabels, id)
           ELSE UNCHANGED <<rcLabels, podLabels>>

\* The effect of Create(m, sel, lab) on store st.
CreateEffect(st, m, sel, lab) ==
    /\ rcs' = [rcs EXCEPT ![st] = StoreCreate(rcs[st], nextId, m, sel, lab)]
    /\ nextId' = nextId + 1
    /\ created' = Append(created, [store |-> st, rc |-> RC(nextId, m, sel, lab, FALSE, 0)])
    /\ UNCHANGED deleted

\* lines 96-99: SetDesiredReplicas on a nonexistent id must fail.
SetBogus ==
    /\ pc = "L96"
    /\ LET r == SetDesiredReplicasRead(rcs[store], BOGUSBOGUS, 1)
       IN  /\ err' = r.err
           /\ IF r.err = "nil" THEN Fatalf(98)
                               ELSE pc' = "L101" /\ UNCHANGED fatalLine
    /\ UNCHANGED <<i, fields, check, rcsOut, dsnap, currentNodes, draining, watcherErr, logged>>
    /\ UNCHANGED <<storeVars, placeVars, notDriverStore>>

\* DisableBogus with the error test of line 102 inverted.
DisableBogus_Inverted ==
    /\ pc = "L101"
    /\ LET r == StoreRead(rcs[store], BOGUSBOGUS)
       IN  /\ err' = r.err
           /\ IF r.err # "nil" THEN Fatalf(103)
                               ELSE pc' = "L106" /\ UNCHANGED fatalLine
    /\ UNCHANGED <<i, fields, check, rcsOut, dsnap, currentNodes, draining, watcherErr, logged>>
    /\ UNCHANGED <<storeVars, placeVars, notDriverStore>>

\* lines 101-104: Disable on a nonexistent id must fail.
DisableBogus ==
    /\ pc = "L101"
    /\ LET r == StoreRead(rcs[store], BOGUSBOGUS)
       IN  /\ err' = r.err
           /\ IF r.err = "nil" THEN Fatalf(103)
                               ELSE pc' = "L106" /\ UNCHANGED fatalLine
    /\ UNCHANGED <<i, fields, check, rcsOut, dsnap, currentNodes, draining, watcherErr, logged>>
    /\ UNCHANGED <<storeVars, placeVars, notDriverStore>>

\* lines 106-109: Delete on a nonexistent id must fail.
DeleteBogus ==
    /\ pc = "L106"
    /\ DeleteEffect(store, BOGUSBOGUS)
    /\ err' = StoreDelete(rcs[store], BOGUSBOGUS).err
    /\ IF err' = "nil" THEN Fatalf(108)
                       ELSE pc' = "L111" /\ UNCHANGED fatalLine
    /\ UNCHANGED <<i, fields, check, rcsOut, dsnap, currentNodes, draining, watcherErr, logged>>
    /\ UNCHANGED <<nextId, created, intent, notDriverStore>>

\* lines 111-114: create the to-be-deleted replication controller.
CreateFirst ==
    /\ pc = "L111"
    /\ \/ /\ CreateEffect(store, args.manifest, args.selector, podLabelsOf(args.manifest))
          /\ fields' = RC(nextId, args.manifest, args.selector, podLabelsOf(args.manifest), FALSE, 0)
          /\ err' = "nil"
          /\ pc' = "L117"
          /\ UNCHANGED fatalLine
       \/ /\ MayBeUnreachable(store)
          /\ fields' = ZeroRC
          /\ err' = StoreError
          /\ Fatalf(113)
          /\ UNCHANGED <<rcs, nextId, created, deleted>>
    /\ UNCHANGED <<i, check, rcsOut, dsnap, currentNodes, draining, watcherErr, logged>>
    /\ UNCHANGED <<rcLabels, placeVars, notDriverStore>>

\* lines 116-120: "Just kidding, immediately delete."
DeleteFirst ==
    /\ pc = "L117"
    /\ DeleteEffect(store, fields.ID)
    /\ err' = StoreDelete(rcs[store], fields.ID).err
    /\ IF err' # "nil" THEN Fatalf(119)
                       ELSE pc' = "L122" /\ UNCHANGED fatalLine
    /\ UNCHANGED <<i, fields, check, rcsOut, dsnap, currentNodes, draining, watcherErr, logged>>
    /\ UNCHANGED <<nextId, created, intent, notDriverStore>>

\* lines 122-125: create the to-be-returned replication controller.
CreateSecond ==
    /\ pc = "L122"
    /\ \/ /\ CreateEffect(store, args.manifest, args.selector, podLabelsOf(args.manifest))
          /\ fields' = RC(nextId, args.manifest, args.selector, podLabelsOf(args.manifest), FALSE, 0)
          /\ err' = "nil"
          /\ pc' = "L128"
          /\ UNCHANGED fatalLine
       \/ /\ MayBeUnreachable(store)
          /\ fields' = ZeroRC
          /\ err' = StoreError
          /\ Fatalf(124)
          /\ UNCHANGED <<rcs, nextId, created, deleted>>
    /\ UNCHANGED <<i, check, rcsOut, dsnap, currentNodes, draining, watcherErr, logged>>
    /\ UNCHANGED <<rcLabels, placeVars, notDriverStore>>

\* lines 127-131: check, err := store.Get(fields.ID)
GetCreated ==
    /\ pc = "L128"
    /\ LET r == StoreGet(rcs[store], fields.ID)
       IN  /\ err' = r.err
           /\ check' = r.rc
           /\ IF r.err # "nil" THEN Fatalf(130)
                               ELSE pc' = "L133" /\ UNCHANGED fatalLine
    /\ UNCHANGED <<i, fields, rcsOut, dsnap, currentNodes, draining, watcherErr, logged>>
    /\ UNCHANGED <<storeVars, placeVars, notDriverStore>>

\* lines 133-139: mismatches := checkFieldsSame(fields, check)
CompareCreated ==
    /\ pc = "L133"
    /\ IF checkFieldsSame(fields, check) = 0
       THEN pc' = "L141" /\ UNCHANGED fatalLine
       ELSE Fatalf(138)
    /\ UNCHANGED <<i, fields, check, rcsOut, err, dsnap, currentNodes, draining, watcherErr, logged>>
    /\ UNCHANGED <<storeVars, placeVars, notDriverStore>>

\* foundIn with the break of line 150 outside the if: only listeds[0] is looked at.
foundIn_FirstOnly(listeds, id) == Len(listeds) > 0 /\ listeds[1].ID = id

\* lines 146-152: found, after the loop over listeds.
foundIn(listeds, id) == \E k \in DOMAIN listeds : listeds[k].ID = id

\* lines 141-158: List must list the just-created RC; rcs[i] = fields; next store.
ListCreated ==
    /\ pc = "L141"
    /\ \/ /\ \E listeds \in StoreListOrders(rcs[store]) :
               IF ~foundIn(listeds, fields.ID)
               THEN Fatalf(154) /\ UNCHANGED <<i, rcsOut>>
               ELSE /\ rcsOut' = Append(rcsOut, fields)
                    /\ i' = i + 1
                    /\ pc' = IF i < Len(Stores) THEN "L96" ELSE "L206"
                    /\ UNCHANGED fatalLine
          /\ err' = "nil"
       \/ /\ MayBeUnreachable(store)
          /\ err' = StoreError
          /\ Fatalf(143)
          /\ UNCHANGED <<i, rcsOut>>
    /\ UNCHANGED <<fields, check, dsnap, currentNodes, draining, watcherErr, logged>>
    /\ UNCHANGED <<storeVars, placeVars, notDriverStore>>

makeRcFields ==
    \/ SetBogus \/ DisableBogus \/ DeleteBogus
    \/ CreateFirst \/ DeleteFirst \/ CreateSecond
    \/ GetCreated \/ CompareCreated \/ ListCreated

\* What a step of main that touches only the driver's own variables and the
\* stores leaves alone.
mainLocals == <<i, fields, check, rcsOut>>

\* lines 58-70, called at line 206: the scheduler is built from --node-endpoint.
scheduler ==
    /\ pc = "L206"
    /\ IF args.endpoint = Unparsable THEN Fatalf(61)
       ELSE IF args.endpoint = Refused THEN Fatalf(66)
       ELSE pc' = "L216" /\ UNCHANGED fatalLine
    /\ UNCHANGED <<mainLocals, err, dsnap, currentNodes, draining, watcherErr, logged>>
    /\ UNCHANGED <<storeVars, placeVars, notDriverStore>>

\* lines 216-220: the RC's labels are read and logged.
LogLabels ==
    /\ pc = "L216"
    /\ \/ /\ pc' = "L223"
          /\ err' = "nil"
          /\ UNCHANGED fatalLine
       \/ /\ err' = StoreError
          /\ Fatalf(218)
    /\ UNCHANGED <<mainLocals, dsnap, currentNodes, draining, watcherErr, logged>>
    /\ UNCHANGED <<storeVars, placeVars, notDriverStore>>

\* lines 222-223: errors := replicationController.WatchDesires(quit)
StartWatch ==
    /\ pc = "L223"
    /\ wpc' = "watching"
    /\ pc' = "L226"
    /\ UNCHANGED <<fatalLine, mainLocals, err, dsnap, currentNodes, draining, watcherErr, logged>>
    /\ UNCHANGED <<storeVars, placeVars, args, pendingErrs, failsLeft, opsLeft, ocall, osnap, last, elsewhere>>

\* A driver call of SetDesiredReplicas(consulFields.ID, n) at line `at`:
\* the read half.  An error is fatal at line `fatalAt`.
DriverSetRead(at, n, fatalAt) ==
    /\ pc = at
    /\ LET r == SetDesiredReplicasRead(rcs["consul"], consulFields.ID, n)
       IN  /\ err' = r.err
           /\ dsnap' = r
           /\ IF r.err # "nil" THEN Fatalf(fatalAt)
                               ELSE pc' = at \o "w" /\ UNCHANGED fatalLine
    /\ UNCHANGED <<mainLocals, currentNodes, draining, watcherErr, logged>>
    /\ UNCHANGED <<storeVars, placeVars, notDriverStore>>

\* The conditional-write half; a write that lost the race is retried from the read.
DriverSetWrite(at, n, next) ==
    /\ pc = at \o "w"
    /\ LET w == SetDesiredReplicasWrite(rcs["consul"], consulFields.ID, dsnap, n)
       IN  /\ rcs' = [rcs EXCEPT !["consul"] = w.store]
           /\ pc' = IF w.ok THEN next ELSE at
    /\ dsnap' = NoSnap
    /\ UNCHANGED <<fatalLine, mainLocals, err, currentNodes, draining, watcherErr, logged>>
    /\ UNCHANGED <<nextId, created, deleted, rcLabels, placeVars, notDriverStore>>

\* lines 225-229: SetDesiredReplicas(consulFields.ID, *nodes)
SetDesiredNodesRead == DriverSetRead("L226", args.nodes, 228)
SetDesiredNodesWrite == DriverSetWrite("L226", args.nodes, "L233")

\* line 233: for len(currentNodes) != *nodes
PollTest ==
    /\ pc = "L233"
    /\ pc' = IF Len(currentNodes) # args.nodes THEN "L237" ELSE "L244"
    /\ UNCHANGED <<fatalLine, mainLocals, err, dsnap, currentNodes, draining, watcherErr, logged>>
    /\ UNCHANGED <<storeVars, placeVars, notDriverStore>>

\* lines 235-241: sleep, then currentNodes, err = replicationController.CurrentNodes()
PollCurrentNodes ==
    /\ pc = "L237"
    /\ \/ /\ currentNodes' = CurrentNodes(intent, podLabels, consulFields.ID)
          /\ pc' = "L233"
          /\ UNCHANGED fatalLine
       \/ /\ currentNodes' = <<>>
          /\ Fatalf(239)
    /\ UNCHANGED <<mainLocals, err, dsnap, draining, watcherErr, logged>>
    /\ UNCHANGED <<storeVars, placeVars, notDriverStore>>

\* lines 244-248: the goroutine that receives from the error channel starts.
StartDrain ==
    /\ pc = "L244"
    /\ draining' = TRUE
    /\ pc' = "L251"
    /\ UNCHANGED <<fatalLine, mainLocals, err, dsnap, currentNodes, watcherErr, logged>>
    /\ UNCHANGED <<storeVars, placeVars, notDriverStore>>

\* lines 250-256: Disable(consulFields.ID), the read half.
DisableRead ==
    /\ pc = "L251"
    /\ LET r == StoreRead(rcs["consul"], consulFields.ID)
       IN  /\ err' = r.err
           /\ dsnap' = r
           /\ IF r.err # "nil" THEN Fatalf(255)
                               ELSE pc' = "L251w" /\ UNCHANGED fatalLine
    /\ UNCHANGED <<mainLocals, currentNodes, draining, watcherErr, logged>>
    /\ UNCHANGED <<storeVars, placeVars, notDriverStore>>

\* Disable, the conditional-write half.
DisableCommit ==
    /\ pc = "L251w"
    /\ LET w == DisableWrite(rcs["consul"], consulFields.ID, dsnap)
       IN  /\ rcs' = [rcs EXCEPT !["consul"] = w.store]
           /\ pc' = IF w.ok THEN "L259" ELSE "L251"
    /\ dsnap' = NoSnap
    /\ UNCHANGED <<fatalLine, mainLocals, err, currentNodes, draining, watcherErr, logged>>
    /\ UNCHANGED <<nextId, created, deleted, rcLabels, placeVars, notDriverStore>>

\* DeleteWithCount with the error test of line 260 inverted.
DeleteWithCount_Inverted ==
    /\ pc = "L259"
    /\ DeleteEffect("consul", consulFields.ID)
    /\ err' = StoreDelete(rcs["consul"], consulFields.ID).err
    /\ IF err' # "nil" THEN Fatalf(261)
                       ELSE pc' = "L267" /\ UNCHANGED fatalLine
    /\ UNCHANGED <<mainLocals, dsnap, currentNodes, draining, watcherErr, logged>>
    /\ UNCHANGED <<nextId, created, intent, notDriverStore>>

\* lines 258-264: deleting an RC with a desired count must fail.
DeleteWithCount ==
    /\ pc = "L259"
    /\ DeleteEffect("consul", consulFields.ID)
    /\ err' = StoreDelete(rcs["consul"], consulFields.ID).err
    /\ IF err' = "nil" THEN Fatalf(261)
                       ELSE pc' = "L267" /\ UNCHANGED fatalLine
    /\ UNCHANGED <<mainLocals, dsnap, currentNodes, draining, watcherErr, logged>>
    /\ UNCHANGED <<nextId, created, intent, notDriverStore>>

\* lines 266-272: SetDesiredReplicas(consulFields.ID, 0)
SetDesiredZeroRead == DriverSetRead("L267", 0, 271)
SetDesiredZeroWrite == DriverSetWrite("L267", 0, "L275")

\* lines 274-280: "Deleting now should succeed."
DeleteAtZero ==
    /\ pc = "L275"
    /\ DeleteEffect("consul", consulFields.ID)
    /\ err' = StoreDelete(rcs["consul"], consulFields.ID).err
    /\ IF err' # "nil" THEN Fatalf(279)
                       ELSE pc' = "L282" /\ UNCHANGED fatalLine
    /\ UNCHANGED <<mainLocals, dsnap, currentNodes, draining, watcherErr, logged>>
    /\ UNCHANGED <<nextId, created, intent, notDriverStore>>

\* CheckNoLabels with the test of line 287 inverted.
CheckNoLabels_Inverted ==
    /\ pc = "L282"
    /\ \/ /\ IF GetRCLabels(rcLabels, consulFields.ID) = {}
             THEN Fatalf(288)
             ELSE pc' = "L292" /\ UNCHANGED fatalLine
          /\ err' = "nil"
       \/ /\ err' = StoreError
          /\ Fatalf(284)
    /\ UNCHANGED <<mainLocals, dsnap, currentNodes, draining, watcherErr, logged>>
    /\ UNCHANGED <<storeVars, placeVars, notDriverStore>>

\* lines 282-289: the deleted RC must have no labels anymore.
CheckNoLabels ==
    /\ pc = "L282"
    /\ \/ /\ IF GetRCLabels(rcLabels, consulFields.ID) # {}
             THEN Fatalf(288)
             ELSE pc' = "L292" /\ UNCHANGED fatalLine
          /\ err' = "nil"
       \/ /\ err' = StoreError
          /\ Fatalf(284)
    /\ UNCHANGED <<mainLocals, dsnap, currentNodes, draining, watcherErr, logged>>
    /\ UNCHANGED <<storeVars, placeVars, notDriverStore>>

\* lines 291-292: quit <- struct{}{} on the unbuffered channel of line 222.
\* The send completes when the watch loop receives it, which the loop does at
\* the top of a tick; the loop then has its acknowledgement to write, and main
\* is past the send.
SendQuit ==
    /\ pc = "L292"
    /\ wpc = "watching"
    /\ wpc' = "acking"
    /\ pc' = "L293"
    /\ UNCHANGED <<fatalLine, mainLocals, err, dsnap, currentNodes, draining, watcherErr, logged>>
    /\ UNCHANGED <<storeVars, placeVars, args, pendingErrs, failsLeft, opsLeft, ocall, osnap, last, elsewhere>>

\* line 293: main returns and the process ends with it.  Nothing between
\* lines 292 and 293 receives the loop's acknowledgement, so a loop that is
\* "acking" never becomes "returned".
Return ==
    /\ pc = "L293"
    /\ pc' = "exit"
    /\ UNCHANGED <<fatalLine, mainLocals, err, dsnap, currentNodes, draining, watcherErr, logged>>
    /\ UNCHANGED <<storeVars, placeVars, notDriverStore>>

main ==
    \/ scheduler \/ LogLabels \/ StartWatch
    \/ SetDesiredNodesRead \/ SetDesiredNodesWrite
    \/ PollTest \/ PollCurrentNodes \/ StartDrain
    \/ DisableRead \/ DisableCommit \/ DeleteWithCount
    \/ SetDesiredZeroRead \/ SetDesiredZeroWrite
    \/ DeleteAtZero \/ CheckNoLabels \/ SendQuit \/ Return

\* ------------------------------------------------------------- watch loop
\* rc.WatchDesires: one tick per change notification or fallback timer.

WatchError(kind, node) == [kind |-> kind, node |-> node]

\* The errors of the nodes in F, in node order.
NodeErrors(F) == LET a == Ascending(F) IN [k \in DOMAIN a |-> WatchError("node", a[k])]

\* The intent tree after a tick that adds `adds` and removes `removes` for rc.
IntentAfter(I, rc, adds, removes) ==
    [n \in NodePool |-> IF n \in adds THEN rc.Manifest
                        ELSE IF n \in removes THEN "none" ELSE I[n]]

\* The pod labels after the same tick: PodLabels plus the ownership label.
PodLabelsAfter(P, rc, adds, removes) ==
    [n \in NodePool |-> IF n \in adds THEN [owner |-> rc.ID, labels |-> rc.PodLabels]
                        ELSE IF n \in removes THEN NoPodLabels ELSE P[n]]

\* Schedules that ignores Disabled.
Schedules_Always(rc) == rc.ID # ZeroID

\* Whether a tick that read rc takes scheduling actions.
Schedules(rc) == ~rc.Disabled

\* One tick: (1) re-read the record, skip when disabled; (2) target-nodes;
\* (3) current-nodes; (4) add for target \ current; (5) remove for
\* current \ target.  A step that fails for one node is reported and the other
\* nodes are still processed.  The errors are then sent on the error channel.
WatchTick ==
    /\ Running
    /\ wpc = "watching"
    /\ LET r == StoreGet(rcs["consul"], consulFields.ID)
       IN  IF r.err # "nil"
           THEN /\ pendingErrs' = <<WatchError("read", 0)>>
                /\ wpc' = "sending"
                /\ UNCHANGED <<intent, podLabels, failsLeft>>
           ELSE IF ~Schedules(r.rc)
           THEN UNCHANGED <<intent, podLabels, wpc, pendingErrs, failsLeft>>
           ELSE LET target == TargetNodes(r.rc)
                    current == CurrentNodeSet(intent, podLabels, r.rc.ID)
                    adds == target \ current
                    removes == current \ target
                IN  \E F \in SUBSET (adds \cup removes) :
                      /\ Cardinality(F) <= failsLeft
                      /\ failsLeft' = failsLeft - Cardinality(F)
                      /\ intent' = IntentAfter(intent, r.rc, adds \ F, removes \ F)
                      /\ podLabels' = PodLabelsAfter(podLabels, r.rc, adds \ F, removes \ F)
                      /\ pendingErrs' = NodeErrors(F)
                      /\ wpc' = IF F = {} THEN "watching" ELSE "sending"
    /\ UNCHANGED <<driverVars, storeVars, args, operatorVars, elsewhere>>

\* A tick whose scheduler call fails: reported, retried on the next tick.
WatchTickSchedulerFails ==
    /\ Running
    /\ wpc = "watching"
    /\ failsLeft > 0
    /\ LET r == StoreGet(rcs["consul"], consulFields.ID)
       IN  r.err = "nil" /\ Schedules(r.rc)
    /\ failsLeft' = failsLeft - 1
    /\ pendingErrs' = <<WatchError("scheduler", 0)>>
    /\ wpc' = "sending"
    /\ UNCHANGED <<driverVars, storeVars, placeVars, args, operatorVars, elsewhere>>

\* The goroutine of lines 244-248 holds no error: it is at its receive.
NoError == WatchError("none", 0)

\* The log of watcher errors after one more line, the first MaxLogged kept.
Printf(log, e) == IF Len(log) < MaxLogged THEN Append(log, e.kind) ELSE log

\* ReceiveError in a goroutine that receives one error and returns after
\* printing it, where line 245 ranges over the channel.
ReceiveError_Once ==
    /\ Running
    /\ draining
    /\ watcherErr = NoError
    /\ wpc = "sending"
    /\ watcherErr' = Head(pendingErrs)
    /\ draining' = FALSE
    /\ pendingErrs' = Tail(pendingErrs)
    /\ wpc' = IF Len(pendingErrs) = 1 THEN "watching" ELSE "sending"
    /\ UNCHANGED <<pc, fatalLine, i, fields, check, rcsOut, err, dsnap, currentNodes, logged>>
    /\ UNCHANGED <<storeVars, placeVars, args, failsLeft, operatorVars, elsewhere>>

\* line 245: the driver's goroutine, at its receive, takes the error the loop
\* is sending on the (unbuffered) error channel; that completes the loop's
\* send.
ReceiveError ==
    /\ Running
    /\ draining
    /\ watcherErr = NoError
    /\ wpc = "sending"
    /\ watcherErr' = Head(pendingErrs)
    /\ pendingErrs' = Tail(pendingErrs)
    /\ wpc' = IF Len(pendingErrs) = 1 THEN "watching" ELSE "sending"
    /\ UNCHANGED <<pc, fatalLine, i, fields, check, rcsOut, err, dsnap, currentNodes, draining, logged>>
    /\ UNCHANGED <<storeVars, placeVars, args, failsLeft, operatorVars, elsewhere>>

\* line 246: the goroutine prints the error it received and goes back to its
\* receive; main and the loop may have taken steps in between.
PrintError ==
    /\ Running
    /\ watcherErr # NoError
    /\ logged' = Printf(logged, watcherErr)
    /\ watcherErr' = NoError
    /\ UNCHANGED <<pc, fatalLine, i, fields, check, rcsOut, err, dsnap, currentNodes, draining>>
    /\ UNCHANGED <<storeVars, placeVars, args, loopVars, operatorVars, elsewhere>>

\* lines 244-248: the goroutine that receives and prints the loop's errors.
drainErrors == ReceiveError \/ PrintError

WatchDesires == WatchTick \/ WatchTickSchedulerFails

\* ---------------------------------------------------------------- operator
\* A second process using the driver-facing API of the coordination store's
\* RC Store and label applicator, concurrently with the driver.

NoCall == [op |-> "none", id |-> ZeroID, n |-> 0, err |-> "nil", rc |-> ZeroRC, list |-> <<>>]

Idle == [op |-> "none", id |-> ZeroID, n |-> 0]

Completed(op, id, n, e, rc, list) ==
    [op |-> op, id |-> id, n |-> n, err |-> e, rc |-> rc, list |-> list]

\* The ids the operator passes: the one that never exists, and those of the
\* records created in the coordination store so far.
OperatorIds == {BOGUSBOGUS} \cup {created[k].rc.ID : k \in {j \in DOMAIN created : created[j].store = "consul"}}

\* The replica counts the operator passes.
OperatorCounts == {-1, 0, 1}

CanCall == opsLeft > 0 /\ ocall = Idle

notOperatorStore == <<args, driverVars, loopVars, elsewhere>>

OpCreate ==
    /\ CanCall
    /\ \E w \in Workloads :
         /\ CreateEffect("consul", w[1], w[2], podLabelsOf(w[1]))
         /\ last' = Completed("Create", nextId, 0, "nil", RC(nextId, w[1], w[2], podLabelsOf(w[1]), FALSE, 0), <<>>)
    /\ opsLeft' = opsLeft - 1
    /\ UNCHANGED <<ocall, osnap, rcLabels, placeVars, notOperatorStore>>

OpGet ==
    /\ CanCall
    /\ \E id \in OperatorIds :
         LET r == StoreGet(rcs["consul"], id)
         IN  last' = Completed("Get", id, 0, r.err, r.rc, <<>>)
    /\ opsLeft' = opsLeft - 1
    /\ UNCHANGED <<ocall, osnap, storeVars, placeVars, notOperatorStore>>

OpList ==
    /\ CanCall
    /\ \E listeds \in StoreListOrders(rcs["consul"]) :
         last' = Completed("List", ZeroID, 0, "nil", ZeroRC, listeds)
    /\ opsLeft' = opsLeft - 1
    /\ UNCHANGED <<ocall, osnap, storeVars, placeVars, notOperatorStore>>

OpDelete ==
    /\ CanCall
    /\ \E id \in OperatorIds :
         /\ DeleteEffect("consul", id)
         /\ last' = Completed("Delete", id, 0, StoreDelete(rcs["consul"], id).err, ZeroRC, <<>>)
    /\ opsLeft' = opsLeft - 1
    /\ UNCHANGED <<ocall, osnap, nextId, created, intent, notOperatorStore>>

\* SetDesiredReplicas(id, n) or Disable(id): validation and the read.
OpBeginUpdate ==
    /\ CanCall
    /\ \E id \in OperatorIds, op \in {"SetDesiredReplicas", "Disable"} :
       \E n \in (IF op = "Disable" THEN {0} ELSE OperatorCounts) :
         LET r == IF op = "Disable" THEN StoreRead(rcs["consul"], id)
                                    ELSE SetDesiredReplicasRead(rcs["consul"], id, n)
         IN  IF r.err # "nil"
             THEN /\ last' = Completed(op, id, n, r.err, ZeroRC, <<>>)
                  /\ UNCHANGED <<ocall, osnap>>
             ELSE /\ ocall' = [op |-> op, id |-> id, n |-> n]
                  /\ osnap' = r
                  /\ UNCHANGED last
    /\ opsLeft' = opsLeft - 1
    /\ UNCHANGED <<storeVars, placeVars, notOperatorStore>>

\* The conditional write of the call in flight; a lost race is retried.
OpCommitUpdate ==
    /\ ocall # Idle
    /\ osnap # NoSnap
    /\ LET w == IF ocall.op = "Disable"
                THEN DisableWrite(rcs["consul"], ocall.id, osnap)
                ELSE SetDesiredReplicasWrite(rcs["consul"], ocall.id, osnap, ocall.n)
       IN  /\ rcs' = [rcs EXCEPT !["consul"] = w.store]
           /\ osnap' = NoSnap
           /\ IF w.ok
              THEN /\ last' = Completed(ocall.op, ocall.id, ocall.n, "nil", ZeroRC, <<>>)
                   /\ ocall' = Idle
              ELSE UNCHANGED <<last, ocall>>
    /\ UNCHANGED <<opsLeft, nextId, created, deleted, rcLabels, placeVars, notOperatorStore>>

\* The retry of a lost race: the record is read again.
OpRetryRead ==
    /\ ocall # Idle
    /\ osnap = NoSnap
    /\ LET r == StoreRead(rcs["consul"], ocall.id)
       IN  IF r.err # "nil"
           THEN /\ last' = Completed(ocall.op, ocall.id, ocall.n, r.err, ZeroRC, <<>>)
                /\ ocall' = Idle
                /\ UNCHANGED osnap
           ELSE /\ osnap' = r
                /\ UNCHANGED <<last, ocall>>
    /\ UNCHANGED <<opsLeft, storeVars, placeVars, notOperatorStore>>

\* SetLabels(labels.RC, id, ...) on an RC the operator finds in the store.
OpSetLabels ==
    /\ CanCall
    /\ \E id \in DOMAIN rcs["consul"] :
         /\ rcLabels' = rcLabels \cup {<<id, "note">>}
         /\ last' = Completed("SetLabels", id, 0, "nil", ZeroRC, <<>>)
    /\ opsLeft' = opsLeft - 1
    /\ UNCHANGED <<ocall, osnap, rcs, nextId, created, deleted, placeVars, notOperatorStore>>

Operator ==
    \/ OpCreate \/ OpGet \/ OpList \/ OpDelete
    \/ OpBeginUpdate \/ OpCommitUpdate \/ OpRetryRead \/ OpSetLabels

\* ------------------------------------------------------------ specification

\* The nil error.
Nil == "nil"

\* ------------------------------------------------------------- path scheme
\* src/pkg/kp/constants.go.  A string is the sequence of its segments, the
\* pieces between its slashes: "" is <<"">>, "a/b" is <<"a", "b">>, "/a" is
\* <<"", "a">>.

\* The segments node names and pod ids are made of.
Segments == {"", ".", "..", "a", "lock", "hooks"}

\* The strings of 1..n segments.
Strings(n) == UNION {[1..k -> Segments] : k \in 1..n}

\* The empty string.
Empty == <<"">>

\* lines 15-18
INTENT_TREE == <<"intent">>
REALITY_TREE == <<"reality">>
HOOK_TREE == <<"hooks">>
LOCK_TREE == <<"lock">>

\* The PodPrefix values of lines 15-17.
PodPrefixes == {INTENT_TREE, REALITY_TREE, HOOK_TREE}

\* path.Clean, on the segments still to read: `out` is the cleaned path so
\* far.  Empty and "." segments are dropped; ".." removes the segment before
\* it, is dropped at the root, and is kept at the start of a relative path.
RECURSIVE CleanFrom(_, _, _)
CleanFrom(segs, out, rooted) ==
    IF segs = <<>> THEN out
    ELSE LET x == Head(segs)
             rest == Tail(segs)
         IN  IF x = "" \/ x = "." THEN CleanFrom(rest, out, rooted)
             ELSE IF x = ".."
                  THEN IF out # <<>> /\ out[Len(out)] # ".."
                       THEN CleanFrom(rest, SubSeq(out, 1, Len(out) - 1), rooted)
                       ELSE IF rooted THEN CleanFrom(rest, out, rooted)
                            ELSE CleanFrom(rest, Append(out, ".."), rooted)
                  ELSE CleanFrom(rest, Append(out, x), rooted)

\* path.Clean(p): "." for the empty path, "/" and the cleaned segments for a
\* rooted one.
Clean(p) ==
    LET rooted == Len(p) >= 2 /\ p[1] = ""
        out == CleanFrom(p, <<>>, rooted)
    IN  IF rooted THEN (IF out = <<>> THEN <<"", "">> ELSE <<"">> \o out)
        ELSE IF out = <<>> THEN <<".">> ELSE out

\* path.Join(a, b): empty elements are ignored, the others are joined with a
\* slash and the result is cleaned; "" when both are empty.
Join(a, b) ==
    IF a = Empty /\ b = Empty THEN Empty
    ELSE IF a = Empty THEN Clean(b)
    ELSE IF b = Empty THEN Clean(a)
    ELSE Clean(a \o b)

\* The errors of util.Errorf at lines 30 and 44.
ErrNoNode == "nodeName not specified when computing host path"
ErrNoPod == "pod id not specified when computing pod path"

Failed(e) == [path |-> Empty, err |-> e]
Returned(p) == [path |-> p, err |-> Nil]

\* lines 21-35
nodePath(podPrefix, nodeName) ==
    IF podPrefix = HOOK_TREE THEN Returned(Join(podPrefix, Empty))
    ELSE IF nodeName = Empty THEN Failed(ErrNoNode)
    ELSE Returned(Join(podPrefix, nodeName))

\* podPath with the two checks in the other order.
podPath_PodFirst(podPrefix, nodeName, podId) ==
    LET np == nodePath(podPrefix, nodeName)
    IN  IF podId = Empty THEN Failed(ErrNoPod)
        ELSE IF np.err # Nil THEN Failed(np.err)
        ELSE Returned(Join(np.path, podId))

\* lines 37-48
podPath(podPrefix, nodeName, podId) ==
    LET np == nodePath(podPrefix, nodeName)
    IN  IF np.err # Nil THEN Failed(np.err)
        ELSE IF podId = Empty THEN Failed(ErrNoPod)
        ELSE Returned(Join(np.path, podId))

\* lines 52-59
PodLockPath(podPrefix, nodeName, podId) ==
    LET subPodPath == podPath(podPrefix, nodeName, podId)
    IN  IF subPodPath.err # Nil THEN Failed(subPodPath.err)
        ELSE Returned(Join(LOCK_TREE, subPodPath.path))

\* No call made yet.
NoPath == [path |-> Empty, err |-> "none"]

notPath == <<args, driverVars, storeVars, placeVars, loopVars, operatorVars, preparerVars>>

PathIdle ==
    /\ pathArgs = [podPrefix |-> HOOK_TREE, nodeName |-> Empty, podId |-> Empty]
    /\ pathOut = NoPath

\* A caller is about to lock some pod of some node in some tree.
PathInit ==
    /\ pathArgs \in [podPrefix : PodPrefixes, nodeName : Strings(MaxSegments), podId : Strings(MaxSegments)]
    /\ pathOut = NoPath

\* The call PodLockPath(podPrefix, nodeName, podId) is made and returns.
CallPodLockPath ==
    /\ pathOut = NoPath
    /\ pathOut' = PodLockPath(pathArgs.podPrefix, pathArgs.nodeName, pathArgs.podId)
    /\ UNCHANGED pathArgs
    /\ UNCHANGED notPath

\* ---------------------------------------------------------------- preparer
\* src/unnamed/part_000.  The two watch loops (package preparer) report each
\* success and each error on unbuffered channels (lines 43-46) to their
\* watchForErrors task, take quit at the top of a tick and acknowledge it on
\* the same channel (line 115).

\* The watch loops: WatchForPodManifestsForNode (line 49), WatchForHooks (line 50).
Loops == {"main", "hook"}

\* The errors a watch loop may report.
Errs == {"e1", "e2"}

\* fmt.Sprintf("%+v", err), lines 96-97.
Sprintf(e) == IF e = Nil THEN "<nil>" ELSE e

\* lines 73-76: the variables the handler and the watchForErrors tasks share.
consecutiveMainErrors == consecutive["main"]
consecutiveHookErrors == consecutive["hook"]
lastMainError == lastError["main"]
lastHookError == lastError["hook"]

\* lines 84-90: a StatusResponse with no field filled in yet.
NoResponse ==
    [ConsecutiveHookErrors |-> 0, ConsecutivePodErrors |-> 0,
     LastHookError |-> "", LastPodError |-> ""]

\* The preparer's process has not exited.
Alive == ppc # "exited"

notPreparer == <<args, driverVars, storeVars, placeVars, loopVars, operatorVars, pathVars>>

PreparerInit ==
    /\ ppc = "L111"
    /\ loopPc = [l \in Loops |-> "running"]
    /\ eventsLeft = [l \in Loops |-> MaxEvents]
    /\ wfePc = [l \in Loops |-> "L62"]
    /\ consecutive = [l \in Loops |-> 0]
    /\ lastError = [l \in Loops |-> Nil]
    /\ hpc = {}
    /\ response = NoResponse
    /\ requestsLeft = MaxRequests
    /\ acked = {}
    /\ sinceSuccess = [l \in Loops |-> 0]
    /\ lastRecv = [l \in Loops |-> Nil]

\* lines 63-64, case err := <-errs: loop l hands an error to its task, which
\* stores it: *lastError = err
ReceiveErr(l) ==
    /\ Alive
    /\ loopPc[l] = "running"
    /\ eventsLeft[l] > 0
    /\ wfePc[l] = "L62"
    /\ \E e \in Errs :
         /\ lastError' = [lastError EXCEPT ![l] = e]
         /\ lastRecv' = [lastRecv EXCEPT ![l] = e]
    /\ wfePc' = [wfePc EXCEPT ![l] = "L65"]
    /\ eventsLeft' = [eventsLeft EXCEPT ![l] = @ - 1]
    /\ sinceSuccess' = [sinceSuccess EXCEPT ![l] = @ + 1]
    /\ UNCHANGED <<ppc, loopPc, consecutive, hpc, response, requestsLeft, acked>>
    /\ UNCHANGED notPreparer

\* IncrementConsecutive that stores 1 instead of adding 1.
IncrementConsecutive_SetToOne(l) ==
    /\ Alive
    /\ wfePc[l] = "L65"
    /\ consecutive' = [consecutive EXCEPT ![l] = 1]
    /\ wfePc' = [wfePc EXCEPT ![l] = "L62"]
    /\ UNCHANGED <<ppc, loopPc, eventsLeft, lastError, hpc, response, requestsLeft,
                   acked, sinceSuccess, lastRecv>>
    /\ UNCHANGED notPreparer

\* line 65: *consecutive++; the task is back at the select of line 62.
IncrementConsecutive(l) ==
    /\ Alive
    /\ wfePc[l] = "L65"
    /\ consecutive' = [consecutive EXCEPT ![l] = @ + 1]
    /\ wfePc' = [wfePc EXCEPT ![l] = "L62"]
    /\ UNCHANGED <<ppc, loopPc, eventsLeft, lastError, hpc, response, requestsLeft,
                   acked, sinceSuccess, lastRecv>>
    /\ UNCHANGED notPreparer

\* lines 66-67, case <-successes: loop l hands a success to its task, which
\* resets the count: *consecutive = 0
ReceiveSuccess(l) ==
    /\ Alive
    /\ loopPc[l] = "running"
    /\ eventsLeft[l] > 0
    /\ wfePc[l] = "L62"
    /\ consecutive' = [consecutive EXCEPT ![l] = 0]
    /\ eventsLeft' = [eventsLeft EXCEPT ![l] = @ - 1]
    /\ sinceSuccess' = [sinceSuccess EXCEPT ![l] = 0]
    /\ UNCHANGED <<ppc, loopPc, wfePc, lastError, hpc, response, requestsLeft, acked, lastRecv>>
    /\ UNCHANGED notPreparer

\* lines 60-70
watchForErrors ==
    \E l \in Loops :
        \/ ReceiveErr(l) \/ IncrementConsecutive(l) \/ ReceiveSuccess(l)

handlerFrame == <<ppc, loopPc, eventsLeft, wfePc, consecutive, lastError, acked,
                  sinceSuccess, lastRecv>>

\* lines 92-98: the four variables the handler reads while it builds the
\* StatusResponse, named by the line of the read.  Go orders function calls
\* among themselves but not the reads of variables, so the four reads happen
\* in any order.
HandlerReads == {"L94", "L95", "L96", "L97"}

\* What Sprintf makes of a last error read while line 64 was storing another
\* one: an interface value is two words, and the read may see one of each.
Torn == "torn"

\* line 81: a request for /_status arrives.
ServeStatus ==
    /\ Alive
    /\ hpc = {}
    /\ requestsLeft > 0
    /\ requestsLeft' = requestsLeft - 1
    /\ response' = NoResponse
    /\ hpc' = HandlerReads
    /\ UNCHANGED handlerFrame
    /\ UNCHANGED notPreparer

\* line 94: ConsecutiveHookErrors: consecutiveHookErrors
ReadConsecutiveHookErrors ==
    /\ Alive
    /\ "L94" \in hpc
    /\ response' = [response EXCEPT !.ConsecutiveHookErrors = consecutiveHookErrors]
    /\ hpc' = hpc \ {"L94"}
    /\ UNCHANGED <<handlerFrame, requestsLeft>>
    /\ UNCHANGED notPreparer

\* line 95: ConsecutivePodErrors: consecutiveMainErrors
ReadConsecutiveMainErrors ==
    /\ Alive
    /\ "L95" \in hpc
    /\ response' = [response EXCEPT !.ConsecutivePodErrors = consecutiveMainErrors]
    /\ hpc' = hpc \ {"L95"}
    /\ UNCHANGED <<handlerFrame, requestsLeft>>
    /\ UNCHANGED notPreparer

\* line 96: LastHookError: fmt.Sprintf("%+v", lastHookError)
ReadLastHookError ==
    /\ Alive
    /\ "L96" \in hpc
    /\ response' = [response EXCEPT !.LastHookError = Sprintf(lastHookError)]
    /\ hpc' = hpc \ {"L96"}
    /\ UNCHANGED <<handlerFrame, requestsLeft>>
    /\ UNCHANGED notPreparer

\* line 97: LastPodError: fmt.Sprintf("%+v", lastMainError)
ReadLastMainError ==
    /\ Alive
    /\ "L97" \in hpc
    /\ response' = [response EXCEPT !.LastPodError = Sprintf(lastMainError)]
    /\ hpc' = hpc \ {"L97"}
    /\ UNCHANGED <<handlerFrame, requestsLeft>>
    /\ UNCHANGED notPreparer

\* The read of line `at` overlapping the store of line 64 by the task of loop
\* l: the task receives a new error and stores it (as in ReceiveErr) while the
\* handler reads the variable, and the handler gets a torn value.
TornRead(l, at) ==
    /\ Alive
    /\ at \in hpc
    /\ loopPc[l] = "running"
    /\ eventsLeft[l] > 0
    /\ wfePc[l] = "L62"
    /\ \E e \in Errs \ {lastError[l]} :
         /\ lastError' = [lastError EXCEPT ![l] = e]
         /\ lastRecv' = [lastRecv EXCEPT ![l] = e]
    /\ wfePc' = [wfePc EXCEPT ![l] = "L65"]
    /\ eventsLeft' = [eventsLeft EXCEPT ![l] = @ - 1]
    /\ sinceSuccess' = [sinceSuccess EXCEPT ![l] = @ + 1]
    /\ response' = IF at = "L96" THEN [response EXCEPT !.LastHookError = Torn]
                                 ELSE [response EXCEPT !.LastPodError = Torn]
    /\ hpc' = hpc \ {at}
    /\ UNCHANGED <<ppc, loopPc, consecutive, requestsLeft, acked>>
    /\ UNCHANGED notPreparer

\* line 96 during line 64 of the hook loop's task.
TornReadLastHookError == TornRead("hook", "L96")

\* line 97 during line 64 of the main loop's task.
TornReadLastMainError == TornRead("main", "L97")

\* lines 72-106, the handler of lines 81-105; the response is written
\* (lines 99-103) once the four reads are made.
statusHandler ==
    \/ ServeStatus
    \/ ReadConsecutiveHookErrors \/ ReadConsecutiveMainErrors
    \/ ReadLastHookError \/ ReadLastMainError
    \/ TornReadLastHookError \/ TornReadLastMainError

terminationFrame == <<eventsLeft, wfePc, consecutive, lastError, hpc, response,
                      requestsLeft, sinceSuccess, lastRecv>>

\* line 111: received := <-signalCh
ReceiveSignal ==
    /\ ppc = "L111"
    /\ ppc' = "L113"
    /\ UNCHANGED <<loopPc, acked, terminationFrame>>
    /\ UNCHANGED notPreparer

\* The send of quit to loop l at line `at`: taken by the loop at the top of a
\* tick, after which the loop sends its acknowledgement.
SendQuitTo(l, at, next) ==
    /\ ppc = at
    /\ loopPc[l] = "running"
    /\ loopPc' = [loopPc EXCEPT ![l] = "acking"]
    /\ ppc' = next
    /\ UNCHANGED <<acked, terminationFrame>>
    /\ UNCHANGED notPreparer

\* line 113: quitHookUpdate <- struct{}{}
SendQuitHook == SendQuitTo("hook", "L113", "L114")

\* line 114: quitMainUpdate <- struct{}{}
SendQuitMain == SendQuitTo("main", "L114", "L115")

\* line 115: <-quitMainUpdate // acknowledgement
ReceiveAckMain ==
    /\ ppc = "L115"
    /\ loopPc["main"] = "acking"
    /\ loopPc' = [loopPc EXCEPT !["main"] = "returned"]
    /\ acked' = acked \cup {"main"}
    /\ ppc' = "L57"
    /\ UNCHANGED terminationFrame
    /\ UNCHANGED notPreparer

\* lines 116, 57-58: waitForTermination returns, main logs "Terminating" and
\* returns: the process exits with every task in it.
Terminate ==
    /\ ppc = "L57"
    /\ ppc' = "exited"
    /\ UNCHANGED <<loopPc, acked, terminationFrame>>
    /\ UNCHANGED notPreparer

\* lines 108-116, and lines 55-58 of main
waitForTermination ==
    \/ ReceiveSignal \/ SendQuitHook \/ SendQuitMain \/ ReceiveAckMain \/ Terminate

PreparerNext == watchForErrors \/ statusHandler \/ waitForTermination

\* ------------------------------------------------------------ specifications

\* The mini-orchestrator as its process starts: flags parsed, both stores empty.
DriverInit ==
    /\ \E n \in -1..NumNodes, w \in Workloads, e \in Endpoints :
         args = [nodes |-> n, manifest |-> w[1], selector |-> w[2], endpoint |-> e]
    /\ pc = "L96"
    /\ fatalLine = 0
    /\ i = 1
    /\ fields = ZeroRC
    /\ check = ZeroRC
    /\ rcsOut = <<>>
    /\ err = "nil"
    /\ dsnap = NoSnap
    /\ currentNodes = <<>>
    /\ draining = FALSE
    /\ watcherErr = NoError
    /\ logged = <<>>
    /\ rcs = [st \in {"fake", "consul"} |-> <<>>]
    /\ nextId = 1
    /\ created = <<>>
    /\ deleted = {}
    /\ rcLabels = {}
    /\ intent = [n \in NodePool |-> "none"]
    /\ podLabels = [n \in NodePool |-> NoPodLabels]
    /\ wpc = "off"
    /\ pendingErrs = <<>>
    /\ failsLeft = MaxFailures
    /\ opsLeft = MaxOperatorOps
    /\ ocall = Idle
    /\ osnap = NoSnap
    /\ last = NoCall

\* The mini-orchestrator not started (no node asked for, nothing run yet).
Parked == DriverInit /\ args.nodes = 0 /\ args.manifest = "web" /\ args.endpoint = GoodEndpoint

Init == DriverInit /\ PreparerInit /\ PathIdle

Next == makeRcFields \/ main \/ drainErrors \/ WatchDesires \/ Operator

Spec == Init /\ [][Next]_vars

\* The driver and its watch loop with no second process touching the store:
\* the record changes only as the driver changes it.  The driver's goroutines
\* are scheduled fairly; the watch loop ticks on every change and on its
\* fallback timer.
NextQuiet == makeRcFields \/ main \/ drainErrors \/ WatchDesires

FairSpec ==
    /\ Init
    /\ [][NextQuiet]_vars
    /\ WF_vars(makeRcFields \/ main)
    /\ WF_vars(WatchTick)
    /\ WF_vars(ReceiveError)
    /\ WF_vars(PrintError)

\* The preparer, with the mini-orchestrator not started.
PreparerOnly == Parked /\ PreparerInit /\ PathIdle

PreparerSpec == PreparerOnly /\ [][PreparerNext]_vars

\* One call of kp.PodLockPath, for every tree and every node name and pod id
\* of up to MaxSegments segments.
PathOnly == Parked /\ PreparerInit /\ PathInit

PathSpec == PathOnly /\ [][CallPodLockPath]_vars

\* ------------------------------------------------------------------ claims

\* The driver performs the store call of line `at` in this step.
DriverCall(at) == pc = at /\ pc' # pc

\* The operator's call `op` returns in this step; last' holds its result.
OperatorReturns(op) ==
    /\ \/ opsLeft' # opsLeft /\ ocall' = Idle
       \/ ocall # Idle /\ ocall' = Idle
    /\ last'.op = op

\* The id the driver passes at line `at`.
CallId(at) ==
    IF at \in {"L96", "L101", "L106"} THEN BOGUSBOGUS
    ELSE IF at \in {"L117", "L128"} THEN fields.ID
    ELSE consulFields.ID

\* The store the driver calls at line `at`.
CallStore(at) ==
    IF at \in {"L96", "L101", "L106", "L117", "L128"} THEN store ELSE "consul"

\* What Delete(id) returning e must have done to a store that was S and is S2.
DeleteContract(S, S2, id, e) ==
    Present(S, id) =>
        /\ (e = "nil") <=> (S[id].rc.ReplicasDesired = 0)
        /\ S[id].rc.ReplicasDesired > 0 =>
              /\ e = "conflict"
              /\ S2 = S
              /\ StoreGet(S2, id) = StoreGet(S, id)
              /\ StoreListOrders(S2) = StoreListOrders(S)
        /\ e = "nil" =>
              /\ ~Present(S2, id)
              /\ \A j \in DOMAIN S \ {id} : Present(S2, j) /\ S2[j] = S[j]

C1Step ==
    /\ \A at \in {"L117", "L259", "L275"} :
         DriverCall(at) =>
            DeleteContract(rcs[CallStore(at)], rcs'[CallStore(at)], CallId(at), err')
    /\ DriverCall("L259") => (pc' = "L267" <=> err' # "nil")
    /\ DriverCall("L275") => (pc' = "L282" <=> err' = "nil")
    /\ OperatorReturns("Delete") =>
         DeleteContract(rcs["consul"], rcs'["consul"], last'.id, last'.err)

\* C1: every Delete of a persisted record, by the driver (lines 117, 259, 275)
\* or by the operator, succeeds exactly when the record's ReplicasDesired is 0;
\* with ReplicasDesired > 0 it fails with a conflict and the store, Get and List
\* are what they were, whatever the Disabled flag; the driver goes past line 264
\* exactly when its Delete failed and past line 280 exactly when it succeeded.
C1_DeleteIffNoReplicasDesired == [][C1Step]_vars

\* Disable, then Delete with a nonzero count, failed with a conflict.
C1_Witness ==
    /\ pc = "L267"
    /\ err = "conflict"
    /\ Present(rcs["consul"], consulFields.ID)
    /\ rcs["consul"][consulFields.ID].rc.Disabled
    /\ rcs["consul"][consulFields.ID].rc.ReplicasDesired > 0

\* The operation the driver calls at line `at`.
CallOp(at) ==
    IF at \in {"L96", "L226", "L267"} THEN "SetDesiredReplicas"
    ELSE IF at \in {"L101", "L251"} THEN "Disable"
    ELSE IF at = "L128" THEN "Get"
    ELSE "Delete"

\* The replica count the driver passes at line `at`.
CallCount(at) == IF at = "L96" THEN 1 ELSE IF at = "L226" THEN args.nodes ELSE 0

\* The lines at which a driver call may return.
DriverCallLines == {"L96", "L101", "L106", "L117", "L128", "L226", "L251", "L259", "L267", "L275"}

\* Nothing that is stored changes in this step.
StoreUntouched == UNCHANGED <<rcs, nextId, rcLabels, intent, podLabels>>

\* The call passes arguments that are valid by themselves, whatever the id.
WellFormed(op, n) == op = "SetDesiredReplicas" => n >= 0

C2Step ==
    /\ \A at \in DriverCallLines :
         DriverCall(at) /\ ~Present(rcs[CallStore(at)], CallId(at)) =>
            /\ err' # "nil"
            /\ StoreUntouched
            /\ WellFormed(CallOp(at), CallCount(at)) => err' = "notfound"
    /\ DriverCall("L96") => pc' = "L101"
    /\ DriverCall("L101") => pc' = "L106"
    /\ DriverCall("L106") => pc' = "L111"
    /\ \A op \in {"Get", "SetDesiredReplicas", "Disable", "Delete"} :
         OperatorReturns(op) /\ ~Present(rcs["consul"], last'.id) =>
            /\ last'.err # "nil"
            /\ StoreUntouched
            /\ WellFormed(op, last'.n) => last'.err = "notfound"

CreatedRC(id) == created[CHOOSE k \in DOMAIN created : created[k].rc.ID = id].rc

\* The record id of store S was never written since its creation.
Unmutated(S, id) == Present(S, id) /\ S[id].ver = 0

C3Step ==
    /\ DriverCall("L128") /\ Unmutated(rcs[store], fields.ID) =>
         /\ err' = "nil"
         /\ check' = fields
         /\ checkFieldsSame(fields, check') = 0
         /\ ~check'.Disabled
         /\ check'.ReplicasDesired = 0
    /\ DriverCall("L133") => (pc' = "L141" <=> check = fields)
    /\ OperatorReturns("Get") /\ Unmutated(rcs["consul"], last'.id) =>
         /\ last'.err = "nil"
         /\ last'.rc = CreatedRC(last'.id)
         /\ ~last'.rc.Disabled
         /\ last'.rc.ReplicasDesired = 0

\* C3: a Get of a record that was not written since its Create returns the RC
\* that Create returned, field for field (Disabled false, ReplicasDesired 0),
\* also after other records were created and deleted in the store; the
\* driver's checkFieldsSame (lines 133-139) counts no mismatch exactly then.
C3_CreateGetRoundTrip == [][C3Step]_vars

\* The driver's Get matched its second Create, after the first was deleted.
C3_Witness ==
    /\ pc = "L141"
    /\ check = fields
    /\ fields.ID # ZeroID
    /\ \E id \in deleted : id < fields.ID /\ CreatedRC(id) # fields

\* The ids created in store st and not deleted.
Live(st) ==
    {created[k].rc.ID : k \in {j \in DOMAIN created : created[j].store = st}} \ deleted

\* How often id is listed in q.
Listed(q, id) == Cardinality({k \in DOMAIN q : q[k].ID = id})

\* C4: every List of a store names each id created there and not deleted
\* exactly once and every other id not at all; the ids returned by Create are
\* pairwise distinct, a Create right after a Delete included; the driver
\* misses its just-created RC in the list (line 154) only if it was deleted.
C4_ListMembership ==
    /\ \A j, k \in DOMAIN created : j # k => created[j].rc.ID # created[k].rc.ID
    /\ \A st \in {"fake", "consul"} : \A q \in StoreListOrders(rcs[st]) :
         \A id \in 0..nextId : Listed(q, id) = IF id \in Live(st) THEN 1 ELSE 0
    /\ fatalLine = 154 => fields.ID \in deleted
    /\ last.op = "List" =>
         \A id \in 0..nextId : Listed(last.list, id) <= 1

\* The driver found its second RC in a list after creating and deleting a first one.
C4_Witness ==
    /\ pc = "L96"
    /\ i = 2
    /\ Len(created) >= 2
    /\ created[1].rc.ID \in deleted
    /\ Live("fake") = {rcsOut[1].ID}

\* The driver's conditional write at line `at` succeeds in this step.
DriverCommits(at) == pc = at \o "w" /\ pc' # at /\ pc' # pc

\* The operator's call op in flight succeeds in this step.
OperatorCommits(op) == ocall.op = op /\ ocall' = Idle /\ last'.err = "nil"

\* Every record of store st but id is as it was, and no record was added or removed.
OthersUnchanged(st, id) ==
    /\ DOMAIN rcs'[st] = DOMAIN rcs[st]
    /\ \A j \in DOMAIN rcs[st] \ {id} : rcs'[st][j] = rcs[st][j]
    /\ \A t \in {"fake", "consul"} \ {st} : rcs'[t] = rcs[t]

\* What a Disable(id) that returns without error leaves in the store.
DisableContract(id) ==
    /\ Present(rcs["consul"], id)
    /\ rcs'["consul"][id].rc = [rcs["consul"][id].rc EXCEPT !.Disabled = TRUE]
    /\ rcs["consul"][id].rc.Disabled => rcs'["consul"][id].rc = rcs["consul"][id].rc
    /\ OthersUnchanged("consul", id)
    /\ UNCHANGED <<rcLabels, intent, podLabels>>

C5Step ==
    /\ DriverCall("L251") /\ Present(rcs["consul"], consulFields.ID) =>
         err' = "nil" /\ pc' = "L251w"
    /\ DriverCommits("L251") => DisableContract(consulFields.ID) /\ pc' = "L259" /\ err' = "nil"
    /\ OperatorCommits("Disable") => DisableContract(last'.id) /\ last'.op = "Disable"

\* C5: a Disable of an existing id returns no error and leaves that record
\* with Disabled = true and every other field as it was, all other records
\* unchanged; on a record that is already disabled (a second Disable) it
\* returns no error too and the record stays exactly as the first call left it.
C5_DisableIdempotent == [][C5Step]_vars

\* The driver's Disable (lines 250-256) and the operator's Disable both
\* succeeded on the same record.
C5_Witness ==
    /\ pc = "L259"
    /\ err = "nil"
    /\ last = Completed("Disable", consulFields.ID, 0, "nil", ZeroRC, <<>>)
    /\ rcs["consul"][consulFields.ID].rc = [consulFields EXCEPT !.Disabled = TRUE, !.ReplicasDesired = args.nodes]

\* What a SetDesiredReplicas(id, n) that reports success stores: the record
\* as it is now, with the count n.
SetContract(id, n) ==
    /\ Present(rcs["consul"], id)
    /\ rcs'["consul"][id].rc = [rcs["consul"][id].rc EXCEPT !.ReplicasDesired = n]
    /\ OthersUnchanged("consul", id)

\* Some call commits a write to the coordination store's records in this step.
SomeSetCommits ==
    \/ DriverCommits("L226") \/ DriverCommits("L267")
    \/ OperatorCommits("SetDesiredReplicas")

SomeDisableCommits == DriverCommits("L251") \/ OperatorCommits("Disable")

C6Step ==
    /\ DriverCommits("L226") => SetContract(consulFields.ID, args.nodes)
    /\ DriverCommits("L267") => SetContract(consulFields.ID, 0)
    /\ OperatorCommits("SetDesiredReplicas") => SetContract(last'.id, last'.n)
    /\ \A st \in {"fake", "consul"} : \A id \in DOMAIN rcs[st] \cap DOMAIN rcs'[st] :
         LET old == rcs[st][id].rc
             new == rcs'[st][id].rc
         IN  /\ new.ReplicasDesired # old.ReplicasDesired => SomeSetCommits
             /\ new.Disabled # old.Disabled => SomeDisableCommits /\ new.Disabled
             /\ [new EXCEPT !.ReplicasDesired = 0, !.Disabled = FALSE]
                  = [old EXCEPT !.ReplicasDesired = 0, !.Disabled = FALSE]

\* C6: in every interleaving of the read and conditional-write halves of the
\* driver's and the operator's SetDesiredReplicas and Disable on one record,
\* a SetDesiredReplicas(id, n) that reports success stored n into the record
\* as it was at that moment; ReplicasDesired changes in no other step, so it
\* is always the count of the last successful write; and no write takes back
\* another writer's Disabled = true or changes any other field.
C6_NoLostUpdate == [][C6Step]_vars

\* The driver's SetDesiredReplicas succeeded on its second attempt, after the
\* operator's Disable took its first conditional write's turn.
C6_Witness ==
    /\ pc = "L233"
    /\ last = Completed("Disable", consulFields.ID, 0, "nil", ZeroRC, <<>>)
    /\ rcs["consul"][consulFields.ID].ver = 2
    /\ rcs["consul"][consulFields.ID].rc = [consulFields EXCEPT !.Disabled = TRUE, !.ReplicasDesired = args.nodes]
    /\ args.nodes > 0

\* Every persisted record has ReplicasDesired >= 0.
NonNegative ==
    \A st \in {"fake", "consul"} : \A id \in DOMAIN rcs[st] : rcs[st][id].rc.ReplicasDesired >= 0

C7Step ==
    /\ NonNegative'
    /\ DriverCall("L226") /\ args.nodes < 0 =>
         err' = "validation" /\ pc' = "fatal" /\ fatalLine' = 228 /\ StoreUntouched
    /\ OperatorReturns("SetDesiredReplicas") /\ last'.n < 0 =>
         last'.err = "validation" /\ StoreUntouched /\ ocall = Idle
    /\ \A st \in {"fake", "consul"} : \A id \in DOMAIN rcs'[st] \ DOMAIN rcs[st] :
         rcs'[st][id].rc.ReplicasDesired = 0

\* C7: every persisted record has ReplicasDesired >= 0 in every reachable
\* state: Create persists 0, and SetDesiredReplicas(id, n) with n < 0 returns a
\* validation error at once, without a read or a write of the store, leaving
\* every record unchanged (the driver then stops at line 228).
C7_ReplicasDesiredNonNegative == NonNegative /\ [][C7Step]_vars

\* The driver was refused a negative count while its record stayed at 0.
C7_Witness ==
    /\ fatalLine = 228
    /\ err = "validation"
    /\ args.nodes < 0
    /\ rcs["consul"][consulFields.ID].rc.ReplicasDesired = 0

\* The driver asked for a count that the eligible nodes can satisfy.
EnoughEligible == args.nodes >= 0 /\ args.nodes <= Len(Eligible(args.selector))

\* C8: with the record and the eligible nodes no longer changing and no
\* persistent scheduler or store failure (at most MaxFailures failures in
\* all), after the driver's SetDesiredReplicas(id, n) with at least n eligible
\* nodes its polling loop on CurrentNodes() (lines 233-242) eventually
\* observes exactly n nodes and exits, unless the process ends on a failed
\* CurrentNodes() (line 239).
C8_PollingLoopExits == (pc = "L233" /\ EnoughEligible) ~> (pc = "L244" \/ ~Running)

\* The watch loop is blocked sending an error that the driver, still polling,
\* does not receive; CurrentNodes() is short of the requested count.
C8_Witness ==
    /\ pc \in {"L233", "L237"}
    /\ EnoughEligible
    /\ wpc = "sending"
    /\ ~draining
    /\ Len(CurrentNodes(intent, podLabels, consulFields.ID)) # args.nodes
    /\ rcs["consul"][consulFields.ID].rc.ReplicasDesired = args.nodes

\* The watch loop's record is in the store and disabled.
WatchedDisabled ==
    /\ Len(rcsOut) = 2
    /\ Present(rcs["consul"], consulFields.ID)
    /\ rcs["consul"][consulFields.ID].rc.Disabled

C9Step ==
    /\ WatchedDisabled /\ rcs' = rcs =>
         /\ UNCHANGED <<intent, podLabels>>
         /\ CurrentNodes(intent', podLabels', consulFields.ID) = CurrentNodes(intent, podLabels, consulFields.ID)
    /\ WatchedDisabled /\ wpc = "watching" =>
         wpc' = "watching" /\ pendingErrs' = pendingErrs
    /\ wpc' # wpc /\ wpc' \notin {"watching", "sending"} => pc = "L292" /\ wpc' = "acking"

\* C9: while the watch loop's record has Disabled = true, no tick adds or
\* removes an intent entry or an ownership label, so CurrentNodes() is the
\* same after every tick, also when ReplicasDesired was changed meanwhile;
\* the loop stays watching, and leaves its ticks only on the driver's quit
\* (line 292).
C9_DisabledSuspendsScheduling == [][C9Step]_vars

\* Disabled, desired count set back to 0, pods still placed, loop watching.
C9_Witness ==
    /\ pc = "L275"
    /\ WatchedDisabled
    /\ rcs["consul"][consulFields.ID].rc.ReplicasDesired = 0
    /\ CurrentNodeSet(intent, podLabels, consulFields.ID) # {}
    /\ wpc = "watching"

\* C10: for every deleted RC, GetLabels on the RC entity returns no label and
\* no pod entity carries the ownership label of its id, whatever the RC
\* placed or was labelled with before; the driver's check after its teardown
\* (lines 282-289) therefore never fails.
C10_NoResidualLabels ==
    /\ \A id \in deleted :
         /\ GetRCLabels(rcLabels, id) = {}
         /\ \A n \in NodePool : podLabels[n].owner # id
    /\ fatalLine # 288

\* The driver's teardown of an RC that had placed pods and carried a label
\* passed the check of lines 282-289.
C10_Witness ==
    /\ pc = "L292"
    /\ consulFields.ID \in deleted
    /\ args.nodes > 0
    /\ \E n \in NodePool : intent[n] = consulFields.Manifest
    /\ last = Completed("SetLabels", consulFields.ID, 0, "nil", ZeroRC, <<>>)

\* The record the watch loop was started for, as a tick reads it.
Watched == StoreGet(rcs["consul"], consulFields.ID)

\* The nodes named by the per-node errors in q.
FailedNodes(q) == {q[k].node : k \in {j \in DOMAIN q : q[j].kind = "node"}}

\* A tick of the watch loop that could read its record and is allowed to
\* schedule takes place in this step.
SchedulingTick ==
    /\ wpc = "watching"
    /\ rcs' = rcs
    /\ pc' = pc
    /\ intent' # intent \/ podLabels' # podLabels \/ pendingErrs' # pendingErrs
    /\ Watched.err = "nil"
    /\ pendingErrs' = <<>> \/ pendingErrs'[1].kind = "node"

C11Step ==
    SchedulingTick =>
      LET rc == Watched.rc
          target == TargetNodes(rc)
          current == CurrentNodeSet(intent, podLabels, rc.ID)
          F == FailedNodes(pendingErrs')
      IN  /\ F \subseteq (target \ current) \cup (current \ target)
          /\ Len(pendingErrs') = Cardinality(F)
          /\ \A n \in (target \ current) \ F :
               intent'[n] = rc.Manifest /\ podLabels'[n] = [owner |-> rc.ID, labels |-> rc.PodLabels]
          /\ \A n \in (current \ target) \ F :
               intent'[n] = "none" /\ podLabels'[n] = NoPodLabels
          /\ \A n \in NodePool \ (((target \ current) \cup (current \ target)) \ F) :
               intent'[n] = intent[n] /\ podLabels'[n] = podLabels[n]
          /\ CurrentNodeSet(intent', podLabels', rc.ID) \ F = target \ F
          /\ wpc' = IF F = {} THEN "watching" ELSE "sending"

\* C11, within the tick: when the write for some nodes of the delta fails,
\* every other node of the delta is processed in the same tick and is
\* converged after it, the failing nodes are left as they were (still in the
\* delta of a later tick), exactly one error per failing node is queued for
\* the error channel, and the loop is not terminated.
C11_PartialFailureIsolated == [][C11Step]_vars

\* A per-node error is waiting to be sent or received on the error channel.
NodeErrorPending == wpc = "sending" /\ pendingErrs # <<>> /\ pendingErrs[1].kind = "node"

\* C11, after the tick: the loop that reported a failing node goes on to a
\* later tick, in which that node is retried, unless the process ends first.
C11_LoopGoesOnAfterNodeError == NodeErrorPending ~> (wpc = "watching" \/ ~Running)

\* One node of a delta of two failed and the other converged in the same
\* tick; the error of the failing node is not received.
C11_Witness ==
    /\ NodeErrorPending
    /\ ~draining
    /\ Len(pendingErrs) = 1
    /\ \E n \in NodePool \ FailedNodes(pendingErrs) :
         /\ n \in TargetNodes(Watched.rc)
         /\ n \in CurrentNodeSet(intent, podLabels, consulFields.ID)
    /\ FailedNodes(pendingErrs) \subseteq TargetNodes(Watched.rc)

\* The error of a tick that could not read its record is waiting.
ReadErrorPending == wpc = "sending" /\ pendingErrs # <<>> /\ pendingErrs[1].kind = "read"

C12Step ==
    /\ wpc' # wpc /\ wpc' \notin {"watching", "sending"} =>
         /\ wpc = "watching" /\ wpc' = "acking"
         /\ pc = "L292" /\ pc' = "L293"
    /\ wpc = "sending" => wpc' \in {"sending", "watching"}
    /\ wpc = "watching" /\ wpc' = "sending" =>
         /\ pendingErrs' # <<>>
         /\ pendingErrs'[1].kind = "read" <=> Watched.err # "nil"
         /\ pendingErrs'[1].kind = "read" => pendingErrs' = <<WatchError("read", 0)>> /\ UNCHANGED <<intent, podLabels>>
    /\ wpc = "sending" /\ wpc' = "watching" => pendingErrs' = <<>> /\ Len(pendingErrs) = 1
    /\ Len(rcsOut) = 2 /\ Watched.err # "nil" /\ rcs' = rcs => UNCHANGED <<intent, podLabels>>
    /\ Len(pendingErrs') < Len(pendingErrs) =>
         /\ draining /\ watcherErr = NoError
         /\ watcherErr' = pendingErrs[1]
         /\ pendingErrs' = Tail(pendingErrs)
    /\ logged' # logged =>
         /\ watcherErr # NoError /\ watcherErr' = NoError
         /\ logged' = Append(logged, watcherErr.kind)

\* C12: the watch loop leaves its ticks only when the driver signals quit
\* (line 292); no error stops it: after a scheduler error, a per-node error
\* or a failed read of its own record the loop is sending and then watching
\* again.  A tick that cannot read its record (after the Delete of lines
\* 274-280, with the loop still running) reports one error and writes
\* neither an intent entry nor a label; the goroutine of lines 244-248
\* receives it (line 245) and later prints it (line 246), and the loop, its
\* send completed by the receive, takes further ticks until quit, for as
\* long as the process runs (a failed GetLabels at line 283 ends it).
C12_StopsOnlyOnQuit ==
    /\ [][C12Step]_vars
    /\ ReadErrorPending ~> (wpc = "watching" \/ ~Running)

\* After the Delete of lines 274-280 two ticks of the loop, one after the
\* other, failed to read the record: each reported the failure, the driver's
\* goroutine printed both, nothing was written, and the loop is watching
\* again, quit not yet sent.
C12_Witness ==
    /\ pc = "L292"
    /\ draining
    /\ wpc = "watching"
    /\ consulFields.ID \in deleted
    /\ Watched.err = "notfound"
    /\ pendingErrs = <<>>
    /\ logged = <<"read", "read">>
    /\ args.nodes > 0

\* C13: when main has gone past its send of quit (line 292), the watch loop
\* has written its acknowledgement and returned: the caller proceeds only
\* after the acknowledgement.
C13_AcknowledgedBeforeCallerProceeds == pc \in {"L293", "exit"} => wpc = "returned"

\* The loop placed pods and took quit at the top of a tick; main returned and
\* the process ended with the loop's acknowledgement never received.
C13_Witness ==
    /\ pc = "exit"
    /\ wpc = "acking"
    /\ pendingErrs = <<>>
    /\ args.nodes > 0
    /\ \E n \in NodePool : intent[n] = consulFields.Manifest

\* C19: every error the watch loop sends on the channel returned by
\* WatchDesires is eventually received, so the loop is never blocked forever
\* on an error send while the process runs.
C19_ErrorsEventuallyReceived == (pendingErrs # <<>>) ~> (pendingErrs = <<>> \/ ~Running)

\* The loop holds a scheduler error from before convergence while the driver
\* sleeps in its polling loop, the receiving goroutine not yet started.
C19_Witness ==
    /\ pc = "L237"
    /\ ~draining
    /\ wpc = "sending"
    /\ pendingErrs = <<WatchError("scheduler", 0)>>
    /\ currentNodes = <<>>
    /\ args.nodes > 0

\* C14: when the preparer's process goes on to exit after a termination
\* request, it has sent quit to both watch loops and has received an
\* acknowledgement from each of them.
C14_ExitAfterEveryAck ==
    ppc \in {"L57", "exited"} =>
        /\ \A l \in Loops : loopPc[l] # "running"
        /\ acked = Loops
        /\ \A l \in Loops : loopPc[l] = "returned"

\* The process has exited; the hook watch loop took quit and is still sending
\* the acknowledgement that nobody receives.
C14_Witness ==
    /\ ppc = "exited"
    /\ loopPc = [l \in Loops |-> IF l = "hook" THEN "acking" ELSE "returned"]
    /\ acked = {"main"}

\* The counters of loop l hold what its received events say.
CountersAsReceived(l) ==
    /\ lastError[l] = lastRecv[l]
    /\ wfePc[l] = "L62" => consecutive[l] = sinceSuccess[l]
    /\ wfePc[l] = "L65" => consecutive[l] + 1 = sinceSuccess[l]

\* A step of the watchForErrors task of loop l.
TaskStep(l) == wfePc'[l] # wfePc[l] \/ eventsLeft'[l] # eventsLeft[l]

C15Step ==
    \A l \in Loops :
        /\ TaskStep(l) =>
             \A o \in Loops \ {l} : consecutive'[o] = consecutive[o] /\ lastError'[o] = lastError[o]
        /\ eventsLeft'[l] # eventsLeft[l] /\ wfePc'[l] = "L62" => consecutive'[l] = 0 /\ lastError'[l] = lastError[l]
        /\ wfePc[l] = "L65" /\ wfePc'[l] = "L62" => consecutive'[l] = consecutive[l] + 1

\* C15: per watch loop, whenever its watchForErrors task waits at its select
\* (lines 62-68), the consecutive-error counter is the number of errors
\* received since the most recent success (0 right after a success, one more
\* per error) and the last error is the error received last; a step for one
\* loop never changes the counter or the last error of the other loop.
C15_CountersFollowEvents ==
    /\ [](\A l \in Loops : CountersAsReceived(l))
    /\ [][C15Step]_vars

\* Main loop: two errors in a row, e1 then e2; hook loop: an error, then a success.
C15_Witness ==
    /\ \A l \in Loops : wfePc[l] = "L62"
    /\ consecutive = [l \in Loops |-> IF l = "main" THEN 2 ELSE 0]
    /\ lastError = [l \in Loops |-> IF l = "main" THEN "e2" ELSE "e1"]
    /\ eventsLeft = [l \in Loops |-> MaxEvents - 2]

\* A (count, last error) pair as the shared variables hold it between two
\* events: a whole error value, and an error once the count is positive.
HeldTogether(count, shown) == shown # Torn /\ (count > 0 => shown # Sprintf(Nil))

\* C20: the handler never reads a counter or a last error while the
\* watchForErrors task that owns it is in the middle of an update, and every
\* completed response shows, per loop, a count and a last error that were
\* held together between two events.
C20_NoReadDuringUpdate ==
    /\ hpc \cap {"L94", "L96"} # {} => wfePc["hook"] = "L62"
    /\ hpc \cap {"L95", "L97"} # {} => wfePc["main"] = "L62"
    /\ hpc = {} /\ requestsLeft < MaxRequests =>
         /\ HeldTogether(response.ConsecutivePodErrors, response.LastPodError)
         /\ HeldTogether(response.ConsecutiveHookErrors, response.LastHookError)

\* A response that reports one consecutive pod error and no last pod error:
\* line 97 was read before, and line 95 after, the main loop's first error.
C20_Witness ==
    /\ hpc = {}
    /\ requestsLeft < MaxRequests
    /\ response.ConsecutivePodErrors = 1
    /\ response.LastPodError = Sprintf(Nil)
    /\ lastError["main"] # Nil

\* ---- C16

\* The call of PodLockPath has returned.
Called == pathOut # NoPath

\* (tree is not hooks and node is empty) or podId is empty.
MustFail ==
    \/ pathArgs.podPrefix # HOOK_TREE /\ pathArgs.nodeName = Empty
    \/ pathArgs.podId = Empty

\* A name that is a clean relative path: no segment is empty, "." or "..".
Canonical(name) == \A k \in 1..Len(name) : name[k] \notin {"", ".", ".."}

\* lock/tree/node/podId, and lock/hooks/podId for hooks.
LockPathOf(podPrefix, nodeName, podId) ==
    IF podPrefix = HOOK_TREE THEN LOCK_TREE \o podPrefix \o podId
    ELSE LOCK_TREE \o podPrefix \o nodeName \o podId

\* Every pod path of every tree, for the names of up to MaxSegments segments.
AllPodPaths ==
    {podPath(t, n, q).path : <<t, n, q>> \in
        {x \in PodPrefixes \X Strings(MaxSegments) \X Strings(MaxSegments) :
            podPath(x[1], x[2], x[3]).err = Nil}}

\* The pod paths of the names that are clean relative paths.
CanonicalPodPaths ==
    {podPath(t, n, q).path : <<t, n, q>> \in
        {x \in PodPrefixes \X Strings(MaxSegments) \X Strings(MaxSegments) :
            /\ Canonical(x[2]) /\ Canonical(x[3])
            /\ podPath(x[1], x[2], x[3]).err = Nil}}

\* When PodLockPath fails and with which error.
FailsAsSpecified ==
    /\ (pathOut.err # Nil) <=> MustFail
    /\ pathArgs.podPrefix # HOOK_TREE /\ pathArgs.nodeName = Empty => pathOut.err = ErrNoNode
    /\ pathOut.err # Nil => pathOut.path = Empty

\* C16 as stated: for every (tree, node, podId), PodLockPath fails iff (tree
\* is not hooks and node is empty) or podId is empty, with the node error
\* first; otherwise it returns lock/tree/node/podId, or lock/hooks/podId for
\* hooks, and that path is no pod path of any tree.
C16_EveryTripleAsStated ==
    Called =>
        /\ FailsAsSpecified
        /\ ~MustFail =>
            /\ pathOut.path = LockPathOf(pathArgs.podPrefix, pathArgs.nodeName, pathArgs.podId)
            /\ pathOut.path \notin AllPodPaths

\* C16, amended: for every (tree, node, podId), PodLockPath fails iff (tree is
\* not hooks and node is empty) or podId is empty, with the node error first
\* and no path returned; for hooks the result does not depend on node.  When
\* node and podId are clean relative paths (no empty, "." or ".." segment) the
\* result is lock/tree/node/podId, or lock/hooks/podId for hooks, and it is
\* not the pod path of any such names in any tree.  The call changes nothing
\* but its result.
C16_PodLockPath ==
    /\ [](Called =>
            /\ FailsAsSpecified
            /\ pathArgs.podPrefix = HOOK_TREE =>
                pathOut = PodLockPath(HOOK_TREE, Empty, pathArgs.podId)
            /\ ~MustFail /\ Canonical(pathArgs.podId)
                  /\ (pathArgs.podPrefix = HOOK_TREE \/ Canonical(pathArgs.nodeName)) =>
                /\ pathOut.path = LockPathOf(pathArgs.podPrefix, pathArgs.nodeName, pathArgs.podId)
                /\ pathOut.path \notin CanonicalPodPaths)
    /\ [][UNCHANGED <<pathArgs, notPath>>]_vars

\* A lock path was returned for a node name and a pod id of the intent tree,
\* one was returned for hooks with a node name passed, and both errors occur.
C16_Witness ==
    /\ Called
    /\ pathArgs = [podPrefix |-> INTENT_TREE, nodeName |-> <<"a">>, podId |-> <<"hooks", "a">>]
    /\ pathOut = Returned(<<"lock", "intent", "a", "hooks", "a">>)
    /\ PodLockPath(HOOK_TREE, <<"a">>, <<"lock">>) = Returned(<<"lock", "hooks", "lock">>)
    /\ PodLockPath(REALITY_TREE, Empty, Empty) = Failed(ErrNoNode)
    /\ PodLockPath(HOOK_TREE, Empty, Empty) = Failed(ErrNoPod)

====
